---- MODULE Spec2Model ----
(***************************************************************************)
(* HIL test runner: hil_tester/main_runner.py (main),                      *)
(* hil_tester/stm32_flasher.py (flash_firmware) and run_test.py (main).    *)
(*                                                                         *)
(* Under Spec one behaviour is one invocation of main_runner.  pc is the   *)
(* position of its single thread of control, inside main or inside         *)
(* flash_firmware.  Under SpecRunTest one behaviour is one invocation of   *)
(* run_test, at position rt_pc, which may launch main_runner as a child    *)
(* process and then waits for it.                                          *)
(* Everything the program reads from its environment (the file system,     *)
(* the flashing utility, the GPIO driver, the serial channel, the          *)
(* comparison function) is a nondeterministic choice made by the action    *)
(* that performs the read.                                                 *)
(*                                                                         *)
(* Text written by the flashing utility is a sequence of fragments.  A     *)
(* fragment is one of the phrases the classifier looks for, in some letter *)
(* case, or filler.  str.lower() maps every fragment to its lower-case     *)
(* form and `phrase in text` looks for the phrase among the lower-cased    *)
(* fragments.                                                              *)
(***************************************************************************)
EXTENDS Integers, Sequences, FiniteSets, TLC

\* ---------------------------------------------------------------- bounds
\* longest standard-error text of the flashing utility, in fragments
MaxWords == 2
\* exit codes of the flashing utility are 0..MaxExit
MaxExit == 2
\* --receive-timeout ranges over -1..MaxTimeout
MaxTimeout == 3

\* ------------------------------------------------------- values and text
None == "<None>"
Unset == "<unset>"

Fragments ==
    { "verify success", "Verify Success", "VERIFY SUCCESS",
      "flash written and verified successfully",
      "Flash written and verified successfully",
      "error", "ERROR", "Error", "!" }

\* str.lower() on one fragment
LowerWord(w) ==
    CASE w \in {"verify success", "Verify Success", "VERIFY SUCCESS"}
             -> "verify success"
      [] w \in {"flash written and verified successfully",
                "Flash written and verified successfully"}
             -> "flash written and verified successfully"
      [] w \in {"error", "ERROR", "Error"} -> "error"
      [] OTHER -> w

\* str.lower() on a text
Lower(text) == [i \in 1..Len(text) |-> LowerWord(text[i])]

\* phrase in text  (substring test)
Contains(text, phrase) == \E i \in 1..Len(text) : text[i] = phrase

Texts == UNION { [1..n -> Fragments] : n \in 0..MaxWords }

ExitCodes == 0..MaxExit

\* outcome of launching a child process with subprocess.run:
\*   "ok"        the process ran and its output was decoded
\*   "notfound"  FileNotFoundError
\*   "exc"       any other Exception (OSError, UnicodeDecodeError, ...)
Launches == {"ok", "notfound", "exc"}

\* what receive_data can return
CapturedContents == {"", "42\n", "garbage"}

\* what emulate_hw_pins_from_file can return besides None
Records == {"empty_record", "record"}

ExpectedArgs == {None, "", "expected.json"}

TimeoutValues == -1..MaxTimeout

VARIABLES
    pc,                  \* position of the thread of control
    skip_flash,          \* args.skip_flash
    expected_values,     \* args.expected_values
    receive_timeout,     \* args.receive_timeout
    fw_found,            \* os.path.exists(args.code_to_test) at main:52
    ff_found,            \* os.path.exists(firmware_path) at flasher:18
    write_launch,        \* how the write command's launch went
    write_rc,            \* exit code of the write command
    write_stderr,        \* standard error of the write command
    first_test,          \* value of the condition at flasher:43-45
    reset_outcome,       \* how the reset command went
    flash_result,        \* what flash_firmware returned to main
    write_runs,          \* times the write command was executed
    reset_runs,          \* times the reset command was executed
    gpio_held,           \* inside `with GPIOController(...)`
    serial_held,         \* inside `with SerialReceiver(...)`
    gpio_acquired,       \* times the GPIO handle was acquired
    serial_opened,       \* times the serial channel was opened
    input_actions_config,
    is_connected,        \* ser_rcv.is_connected() at main:82
    reception_mode_for_receiver,
    overall_timeout_s,
    idle_timeout_s,
    received_data,
    now,                 \* time since receive_data was called, in time units
    last_rx,             \* time of the last byte received, -1 before the first
    capture_returns,     \* times receive_data has returned
    exp_exists,          \* os.path.exists(args.expected_values) at main:105
    check_output_calls,  \* every call of check_output: arguments, outcome
    test_passed,
    script_ran_to_completion,
    pending,             \* exception that left the try body of main:69
    exit_code,           \* process exit code, -1 while running
    rt_pc,               \* position of run_test, "idle" when it is not used
    rt_args,             \* run_test's parsed command line
    test_config,         \* << the parsed bundle >>, << >> before it is read
    actual_firmware_path,
    actual_input_values_path,
    actual_expected_values_path,
    rt_exp_found,        \* os.path.exists(...) at run_test:73 or run_test:78
    cmd,                 \* << the child's command line >>, << >> before
    rt_launch,           \* how subprocess.run went at run_test:122
    rt_exit_code         \* run_test's exit code, -1 while running

vars ==
    << pc, skip_flash, expected_values, receive_timeout, fw_found, ff_found,
       write_launch, write_rc, write_stderr, first_test, reset_outcome,
       flash_result, write_runs, reset_runs, gpio_held, serial_held,
       gpio_acquired, serial_opened, input_actions_config, is_connected,
       reception_mode_for_receiver, overall_timeout_s, idle_timeout_s,
       received_data, now, last_rx, capture_returns, exp_exists,
       check_output_calls, test_passed, script_ran_to_completion, pending,
       exit_code, rt_pc, rt_args, test_config, actual_firmware_path,
       actual_input_values_path, actual_expected_values_path, rt_exp_found,
       cmd, rt_launch, rt_exit_code >>

argVars == << skip_flash, expected_values, receive_timeout >>

rtPaths ==
    << actual_firmware_path, actual_input_values_path,
       actual_expected_values_path, rt_exp_found >>

rtVars ==
    << rt_pc, rt_args, test_config, rtPaths, cmd, rt_launch, rt_exit_code >>

flashLocals ==
    << ff_found, write_launch, write_rc, write_stderr, first_test,
       reset_outcome >>

flashCounts == << write_runs, reset_runs >>

hwVars == << gpio_held, serial_held, gpio_acquired, serial_opened >>

captureClock == << now, last_rx, capture_returns >>

captureVars ==
    << input_actions_config, is_connected, reception_mode_for_receiver,
       overall_timeout_s, idle_timeout_s, received_data, captureClock >>

verifyVars ==
    << exp_exists, check_output_calls, test_passed, script_ran_to_completion >>

\* Python truthiness of an optional string argument: None and "" are false
Truthy(s) == s # None /\ s # ""

\* ------------------------------------------------------------------ Init
\* main:47-48, main:67   main_runner's state before its first step
MainFresh ==
    /\ fw_found = Unset
    /\ ff_found = Unset
    /\ write_launch = Unset
    /\ write_rc = -1
    /\ write_stderr = << >>
    /\ first_test = Unset
    /\ reset_outcome = Unset
    /\ flash_result = Unset
    /\ write_runs = 0
    /\ reset_runs = 0
    /\ gpio_held = FALSE
    /\ serial_held = FALSE
    /\ gpio_acquired = 0
    /\ serial_opened = 0
    /\ input_actions_config = Unset
    /\ reception_mode_for_receiver = Unset
    /\ overall_timeout_s = 0
    /\ idle_timeout_s = 0
    /\ received_data = None
    /\ now = 0
    /\ last_rx = -1
    /\ capture_returns = 0
    /\ exp_exists = Unset
    /\ check_output_calls = << >>
    /\ is_connected = Unset
    /\ test_passed = FALSE
    /\ script_ran_to_completion = FALSE
    /\ pending = None
    /\ exit_code = -1

\* run_test:22-24   run_test's state at position p: "start" before its
\* first step, "idle" when main_runner is invoked directly
RTFresh(p) ==
    /\ rt_pc = p
    /\ test_config = << >>
    /\ actual_firmware_path = None
    /\ actual_input_values_path = None
    /\ actual_expected_values_path = None
    /\ rt_exp_found = Unset
    /\ cmd = << >>
    /\ rt_launch = Unset
    /\ rt_exit_code = -1

\* main:33-48 and main:67, after parse_args: main_runner invoked directly
Init ==
    /\ pc = "start"
    /\ skip_flash \in BOOLEAN
    /\ expected_values \in ExpectedArgs
    /\ receive_timeout \in TimeoutValues
    /\ MainFresh
    /\ RTFresh("idle")
    /\ rt_args = << >>

\* Python's str(bool)
PyBool(b) == IF b THEN "True" ELSE "False"

\* sys.exit(code) where no finally clause is pending (main:54, 58, 63):
\* SystemExit is not an Exception, so main:61 does not catch it
Exit(code) ==
    /\ pc' = "exited"
    /\ exit_code' = code

\* ------------------------------------------------ main, step 1: flashing
\* main:50, main:64-65   --skip-flash: step 1 is skipped
SkipFlashLooksUpFirmware ==
    /\ pc = "start"
    /\ skip_flash
    /\ \E found \in BOOLEAN :
        /\ fw_found' = PyBool(found)
        /\ IF found
              THEN pc' = "gpio_init" /\ UNCHANGED exit_code
              ELSE Exit(1)
    /\ UNCHANGED << rtVars, argVars, flashLocals, flash_result, flashCounts, hwVars,
                    captureVars, verifyVars, pending >>
SkipFlash ==
    /\ pc = "start"
    /\ skip_flash
    /\ pc' = "gpio_init"
    /\ UNCHANGED << rtVars, argVars, fw_found, flashLocals, flash_result, flashCounts,
                    hwVars, captureVars, verifyVars, pending, exit_code >>

\* main:52   `if not os.path.exists(args.code_to_test)`
ExitsOnMissingFirmwareMutant(found) == FALSE
ExitsOnMissingFirmware(found) == ~found

\* main:50-56   the firmware file is looked up, then flash_firmware is called
FirmwareCheck ==
    /\ pc = "start"
    /\ ~skip_flash
    /\ \E found \in BOOLEAN :
        /\ fw_found' = PyBool(found)
        /\ IF ExitsOnMissingFirmware(found)
              THEN Exit(1)
              ELSE pc' = "ff_entry" /\ UNCHANGED exit_code
    /\ UNCHANGED << rtVars, argVars, flashLocals, flash_result, flashCounts, hwVars,
                    captureVars, verifyVars, pending >>

\* -------------------------------------------------------- flash_firmware
\* flasher:18-34   the firmware file is looked up again; no process is run
\* when it is missing
FF_CheckPath ==
    /\ pc = "ff_entry"
    /\ \E found \in BOOLEAN :
        /\ ff_found' = PyBool(found)
        /\ IF found
              THEN pc' = "ff_write" /\ UNCHANGED flash_result
              ELSE pc' = "ff_return" /\ flash_result' = "False"
    /\ UNCHANGED << rtVars, argVars, fw_found, write_launch, write_rc, write_stderr,
                    first_test, reset_outcome, flashCounts, hwVars,
                    captureVars, verifyVars, pending, exit_code >>

\* flasher:18-34   a statement outside the try statement raises: the
\* exception leaves flash_firmware
FF_Raise ==
    /\ pc = "ff_entry"
    /\ flash_result' = "raised"
    /\ pc' = "ff_return"
    /\ UNCHANGED << rtVars, argVars, fw_found, flashLocals, flashCounts, hwVars,
                    captureVars, verifyVars, pending, exit_code >>

\* flasher:36   subprocess.run(..., check=True) raises CalledProcessError
\* on a non-zero exit code
CalledProcessError(rc) == rc # 0

\* flasher:64-70   return value of the CalledProcessError handler
WriteFailedResultMutant == "True"
WriteFailedResult == "False"

\* flasher:36, 64-76   the write command runs once
FF_RunWrite ==
    /\ pc = "ff_write"
    /\ write_runs' = write_runs + 1
    /\ \E l \in Launches :
        /\ write_launch' = l
        /\ IF l = "ok"
              THEN \E rc \in ExitCodes, err \in Texts :
                      /\ write_rc' = rc
                      /\ write_stderr' = err
                      /\ IF CalledProcessError(rc)
                            THEN /\ flash_result' = WriteFailedResult
                                 /\ pc' = "ff_return"
                            ELSE /\ UNCHANGED flash_result
                                 /\ pc' = "ff_classify"
              ELSE /\ UNCHANGED << write_rc, write_stderr >>
                   /\ flash_result' = "False"
                   /\ pc' = "ff_return"
    /\ UNCHANGED << rtVars, argVars, fw_found, ff_found, first_test, reset_outcome,
                    reset_runs, hwVars, captureVars, verifyVars, pending,
                    exit_code >>

\* flasher:43-45   the first classification test
FirstTest(rc, err) ==
    \/ Contains(Lower(err), "verify success")
    \/ Contains(Lower(err), "flash written and verified successfully")
    \/ (rc = 0 /\ ~Contains(Lower(err), "error"))

\* flasher:58   the second-chance test
SecondChanceIgnoresError(rc, err) == rc = 0
SecondChance(rc, err) == rc = 0 /\ ~Contains(Lower(err), "error")

\* flasher:43-46, 56-62   classification of a write command that returned
FF_Classify ==
    /\ pc = "ff_classify"
    /\ first_test' = PyBool(FirstTest(write_rc, write_stderr))
    /\ IF FirstTest(write_rc, write_stderr)
          THEN /\ pc' = "ff_reset"
               /\ UNCHANGED flash_result
          ELSE /\ pc' = "ff_return"
               /\ flash_result' = PyBool(SecondChance(write_rc, write_stderr))
    /\ UNCHANGED << rtVars, argVars, fw_found, ff_found, write_launch, write_rc,
                    write_stderr, reset_outcome, flashCounts, hwVars,
                    captureVars, verifyVars, pending, exit_code >>

\* outcome of the reset command: it ran and exited 0 ("ok"), it ran and
\* exited non-zero ("nonzero"), or its launch failed as in Launches
ResetOutcomes == {"ok", "nonzero", "notfound", "exc"}

\* flasher:48-55, 71-76   what flash_firmware returns after the reset
\* attempt: CalledProcessError is handled at flasher:52 and True is
\* returned; every other exception reaches the handlers of the outer try,
\* which return False
ResetResult(o) == IF o \in {"ok", "nonzero"} THEN "True" ELSE "False"

\* flasher:47-55, 71-76   the reset command runs once
FF_Reset ==
    /\ pc = "ff_reset"
    /\ reset_runs' = reset_runs + 1
    /\ \E o \in ResetOutcomes :
        /\ reset_outcome' = o
        /\ flash_result' = ResetResult(o)
    /\ pc' = "ff_return"
    /\ UNCHANGED << rtVars, argVars, fw_found, ff_found, write_launch, write_rc,
                    write_stderr, first_test, write_runs, hwVars,
                    captureVars, verifyVars, pending, exit_code >>

\* main:56   `if not flash_firmware(...)`, and main:61 for an exception
FlashAbortsMutant(result) == FALSE
FlashAborts(result) == result # "True"

\* main:56-63   back in main: a failed flash ends the process with code 1;
\* flash_firmware's locals are gone
MainFlashReturn ==
    /\ pc = "ff_return"
    /\ IF FlashAborts(flash_result)
          THEN Exit(1)
          ELSE pc' = "gpio_init" /\ UNCHANGED exit_code
    /\ ff_found' = Unset
    /\ write_launch' = Unset
    /\ write_rc' = -1
    /\ write_stderr' = << >>
    /\ first_test' = Unset
    /\ reset_outcome' = Unset
    /\ UNCHANGED << rtVars, argVars, fw_found, flash_result, flashCounts, hwVars,
                    captureVars, verifyVars, pending >>

\* ------------------------------------- main, steps 2 and 3: the try body
\* an exception (SystemExit included) leaves the try body of main:69: the
\* with statements of main:70 and main:81 release what they hold, and the
\* finally clause of main:137 runs with the exception in flight
AbortLeaks(exc) ==
    /\ pending' = exc
    /\ UNCHANGED << gpio_held, serial_held >>
    /\ pc' = "finally"
Abort(exc) ==
    /\ pending' = exc
    /\ gpio_held' = FALSE
    /\ serial_held' = FALSE
    /\ pc' = "finally"

\* main:70   GPIOController(mode_str=...) is constructed and entered, or
\* raises GPIOInitError
GPIOEnter ==
    /\ pc = "gpio_init"
    /\ \E ok \in BOOLEAN :
        IF ok
           THEN /\ gpio_held' = TRUE
                /\ gpio_acquired' = gpio_acquired + 1
                /\ pc' = "emulate"
                /\ UNCHANGED << serial_held, pending >>
           ELSE /\ Abort("GPIOInitError")
                /\ UNCHANGED gpio_acquired
    /\ UNCHANGED << rtVars, argVars, fw_found, flashLocals, flash_result, flashCounts,
                    serial_opened, captureVars, verifyVars, exit_code >>

\* main:72-78   the stimulus driver returns a record, returns None (then
\* main calls sys.exit(1)), or raises GPIOControllerError
Emulate ==
    /\ pc = "emulate"
    /\ \E r \in Records \cup {None, "raise"} :
        CASE r = "raise" ->
                /\ Abort("GPIOControllerError")
                /\ UNCHANGED input_actions_config
          [] r = None ->
                /\ input_actions_config' = None
                /\ Abort("SystemExit(1)")
          [] OTHER ->
                /\ input_actions_config' = r
                /\ pc' = "serial_open"
                /\ UNCHANGED << gpio_held, serial_held, pending >>
    /\ UNCHANGED << rtVars, argVars, fw_found, flashLocals, flash_result, flashCounts,
                    gpio_acquired, serial_opened, is_connected,
                    reception_mode_for_receiver, overall_timeout_s,
                    idle_timeout_s, received_data, captureClock, verifyVars,
                    exit_code >>

\* main:81   SerialReceiver(port=..., baudrate=...) is constructed and
\* entered, or raises SerialReceiverError
SerialOpenAfterGpioRelease ==
    /\ pc = "serial_open"
    /\ \E ok \in BOOLEAN :
        IF ok
           THEN /\ serial_held' = TRUE
                /\ gpio_held' = FALSE
                /\ serial_opened' = serial_opened + 1
                /\ pc' = "serial_check"
                /\ UNCHANGED pending
           ELSE /\ Abort("SerialReceiverError")
                /\ UNCHANGED serial_opened
    /\ UNCHANGED << rtVars, argVars, fw_found, flashLocals, flash_result, flashCounts,
                    gpio_acquired, captureVars, verifyVars, exit_code >>
SerialOpen ==
    /\ pc = "serial_open"
    /\ \E ok \in BOOLEAN :
        IF ok
           THEN /\ serial_held' = TRUE
                /\ serial_opened' = serial_opened + 1
                /\ pc' = "serial_check"
                /\ UNCHANGED << gpio_held, pending >>
           ELSE /\ Abort("SerialReceiverError")
                /\ UNCHANGED serial_opened
    /\ UNCHANGED << rtVars, argVars, fw_found, flashLocals, flash_result, flashCounts,
                    gpio_acquired, captureVars, verifyVars, exit_code >>

\* main:82-84   a channel that is not connected ends the run: sys.exit(1)
SerialCheck ==
    /\ pc = "serial_check"
    /\ \E c \in BOOLEAN :
        /\ is_connected' = PyBool(c)
        /\ IF c
              THEN /\ pc' = "mode"
                   /\ UNCHANGED << gpio_held, serial_held, pending >>
              ELSE Abort("SystemExit(1)")
    /\ UNCHANGED << rtVars, argVars, fw_found, flashLocals, flash_result, flashCounts,
                    gpio_acquired, serial_opened, input_actions_config,
                    reception_mode_for_receiver, overall_timeout_s,
                    idle_timeout_s, received_data, captureClock, verifyVars,
                    exit_code >>

\* values of the reception_mode field of the expected-values document
Modes == {"lines", "raw"}

\* main:86-94   the reception mode comes from the expected-values document
\* when it can be read, and is "lines" otherwise
ResolveMode ==
    /\ pc = "mode"
    /\ \E exists \in BOOLEAN, doc \in Modes \cup {"absent", "unreadable"} :
        reception_mode_for_receiver' =
            IF Truthy(expected_values) /\ exists /\ doc \in Modes
               THEN doc
               ELSE "lines"
    /\ pc' = "receive"
    /\ UNCHANGED << rtVars, argVars, fw_found, flashLocals, flash_result, flashCounts,
                    hwVars, input_actions_config, is_connected,
                    overall_timeout_s, idle_timeout_s, received_data,
                    captureClock, verifyVars, pending, exit_code >>

\* Python's max of two integers
Max(a, b) == IF a >= b THEN a ELSE b

\* main:100   idle_timeout_s=max(1, args.receive_timeout // 2)
IdleTimeout(t) == Max(1, t \div 2)

\* main:96-101   receive_data is called with the overall timeout and the
\* idle timeout derived from it
Receive ==
    /\ pc = "receive"
    /\ overall_timeout_s' = receive_timeout
    /\ idle_timeout_s' = IdleTimeout(receive_timeout)
    /\ now' = 0
    /\ last_rx' = -1
    /\ pc' = "capturing"
    /\ UNCHANGED << rtVars, argVars, fw_found, flashLocals, flash_result, flashCounts,
                    hwVars, input_actions_config, is_connected,
                    reception_mode_for_receiver, received_data,
                    capture_returns, verifyVars, pending, exit_code >>

\* the capture engine's dual-timeout policy: the session ends once the
\* overall timeout is reached, or once no byte has arrived for the idle
\* timeout after at least one byte was seen
CaptureDoneIgnoresIdle(n, last, overall, idle) == n >= overall
CaptureDone(n, last, overall, idle) ==
    \/ n >= overall
    \/ (last >= 0 /\ n - last >= idle)

\* the capture engine polls: one time unit passes, during which a byte
\* arrives or not, or the channel drops and the engine raises
CaptureTick ==
    /\ pc = "capturing"
    /\ ~CaptureDone(now, last_rx, overall_timeout_s, idle_timeout_s)
    /\ \E ev \in {"silence", "byte", "raise"} :
        IF ev = "raise"
           THEN /\ Abort("SerialReceiverError")
                /\ UNCHANGED << now, last_rx >>
           ELSE /\ now' = now + 1
                /\ last_rx' = IF ev = "byte" THEN now + 1 ELSE last_rx
                /\ UNCHANGED << pc, gpio_held, serial_held, pending >>
    /\ UNCHANGED << rtVars, argVars, fw_found, flashLocals, flash_result, flashCounts,
                    gpio_acquired, serial_opened, input_actions_config,
                    is_connected, reception_mode_for_receiver,
                    overall_timeout_s, idle_timeout_s, received_data,
                    capture_returns, verifyVars, exit_code >>

\* main:97-101   receive_data returns what was captured, None when no byte
\* was seen; leaving the two with statements releases the serial channel
\* and then the GPIO handle
CaptureReturn ==
    /\ pc = "capturing"
    /\ CaptureDone(now, last_rx, overall_timeout_s, idle_timeout_s)
    /\ \E d \in (IF last_rx >= 0 THEN CapturedContents ELSE {None}) :
        received_data' = d
    /\ capture_returns' = capture_returns + 1
    /\ serial_held' = FALSE
    /\ gpio_held' = FALSE
    /\ pc' = "verify"
    /\ UNCHANGED << rtVars, argVars, fw_found, flashLocals, flash_result, flashCounts,
                    gpio_acquired, serial_opened, input_actions_config,
                    is_connected, reception_mode_for_receiver,
                    overall_timeout_s, idle_timeout_s, now, last_rx,
                    verifyVars, pending, exit_code >>

\* ------------------------------------------------ main, step 4: verifier
\* main:104-121   is check_output called
DelegatesWithoutData(expected, exists, data) == Truthy(expected) /\ exists
Delegates(expected, exists, data) ==
    Truthy(expected) /\ exists /\ data # None

\* main:104-121   test_passed; cmp is what check_output returned, and is
\* read only when Delegates holds
VerdictNoSpecPasses(expected, exists, data, cmp) ==
    IF Truthy(expected)
       THEN IF ~exists THEN TRUE
            ELSE IF data = None THEN FALSE ELSE cmp
       ELSE TRUE
VerdictMissingFileFails(expected, exists, data, cmp) ==
    IF Truthy(expected)
       THEN IF ~exists THEN FALSE
            ELSE IF data = None THEN FALSE ELSE cmp
       ELSE data # None
Verdict(expected, exists, data, cmp) ==
    IF Truthy(expected)
       THEN IF ~exists THEN TRUE
            ELSE IF data = None THEN FALSE ELSE cmp
       ELSE data # None

\* main:103-123   the verifier; os.path.exists is evaluated only when an
\* expected-values path was given; an exception raised by check_output
\* leaves the try body
Verify ==
    /\ pc = "verify"
    /\ \E exists \in BOOLEAN, cmp \in {"True", "False", "raise"} :
        /\ exp_exists' = IF Truthy(expected_values) THEN PyBool(exists)
                                                    ELSE Unset
        /\ (~Truthy(expected_values) => exists)
        /\ (~Delegates(expected_values, exists, received_data)
              => cmp = "True")
        /\ check_output_calls' =
              IF Delegates(expected_values, exists, received_data)
                 THEN Append(check_output_calls,
                             [ args |-> << received_data, expected_values,
                                           input_actions_config >>,
                               returned |-> cmp ])
                 ELSE check_output_calls
        /\ IF Delegates(expected_values, exists, received_data)
              /\ cmp = "raise"
              THEN /\ Abort("Exception")
                   /\ UNCHANGED << test_passed, script_ran_to_completion >>
              ELSE /\ test_passed' =
                        Verdict(expected_values, exists, received_data,
                                cmp = "True")
                   /\ script_ran_to_completion' = TRUE
                   /\ pc' = "finally"
                   /\ UNCHANGED << gpio_held, serial_held, pending >>
    /\ UNCHANGED << rtVars, argVars, fw_found, flashLocals, flash_result, flashCounts,
                    gpio_acquired, serial_opened, captureVars, exit_code >>

\* main:139-148   the exit code chosen by the finally clause
FinallyExitCodeNoIncomplete(completed, passed) ==
    IF completed /\ passed THEN 0 ELSE 1
FinallyExitCodeIgnoresVerdict(completed, passed) ==
    IF completed THEN 0 ELSE 2
FinallyExitCode(completed, passed) ==
    IF completed THEN (IF passed THEN 0 ELSE 1) ELSE 2

\* main:137-148   the finally clause always calls sys.exit, which replaces
\* whatever exception left the try body (SystemExit(1) included)
Finally ==
    /\ pc = "finally"
    /\ exit_code' = FinallyExitCode(script_ran_to_completion, test_passed)
    /\ pc' = "exited"
    /\ UNCHANGED << rtVars, argVars, fw_found, flashLocals, flash_result, flashCounts,
                    hwVars, captureVars, verifyVars, pending >>

\* ------------------------------------------------------------------ Next
Next ==
    \/ SkipFlash
    \/ FirmwareCheck
    \/ FF_CheckPath
    \/ FF_Raise
    \/ FF_RunWrite
    \/ FF_Classify
    \/ FF_Reset
    \/ MainFlashReturn
    \/ GPIOEnter
    \/ Emulate
    \/ SerialOpen
    \/ SerialCheck
    \/ ResolveMode
    \/ Receive
    \/ CaptureTick
    \/ CaptureReturn
    \/ Verify
    \/ Finally

Spec == Init /\ [][Next]_vars

\* =================================================================
\* run_test.py
\* =================================================================

\* main:31   default of --receive-timeout
DefaultReceiveTimeout == 10

\* run_test:29   directory of the bundle file
ConfigDir == "/cfg"

\* the absolute paths among the paths of the model
AbsolutePaths == {"/abs/fw.bin", "/abs/in.json", "/abs/exp.json"}

\* run_test:46, 60, 77   os.path.isabs
IsAbs(path) == path \in AbsolutePaths

\* run_test:46, 60, 77   os.path.join(config_dir, path), path not absolute
Join(dir, path) == dir \o "/" \o path

\* run_test:46, 60, 77   os.path.normpath: a ".." removes the directory
\* before it
NormPath(path) ==
    CASE path = "/cfg/../exp.json" -> "/exp.json"
      [] path = "/cfg/../in.json" -> "/in.json"
      [] OTHER -> path

\* run_test:46, 60, 77   a bundle field resolved against the bundle's
\* directory unless absolute
ResolveBundlePath(path) ==
    IF IsAbs(path) THEN path ELSE NormPath(Join(ConfigDir, path))

\* run_test:52-66, 69-80   the path passed on: the command-line value when
\* it is not empty, else the bundle field when it is not empty, else None
ChosenPathBundleFirst(cli, field) ==
    IF Truthy(field) THEN ResolveBundlePath(field)
    ELSE IF Truthy(cli) THEN cli
    ELSE None
ChosenPath(cli, field) ==
    IF Truthy(cli) THEN cli
    ELSE IF Truthy(field) THEN ResolveBundlePath(field)
    ELSE None

\* contents of a bundle document (a missing field reads as None)
Bundles ==
    [ code_to_test : {None, "fw.bin", "/abs/fw.bin"},
      input_values : {None, "../in.json", "/abs/in.json"},
      expected_values : {None, "../exp.json", "/abs/exp.json"} ]

\* run_test's command lines; receive_timeout 0 stands for a flag that is
\* absent as well: both are false at run_test:109
RTArgs ==
    [ input_values : {None, "cli_in.json"},
      expected_values : {None, "", "cli_exp.json"},
      skip_flash : BOOLEAN,
      receive_timeout : {0, 2} ]

\* run_test:22-24   run_test invoked; main_runner is not running
InitRT ==
    /\ pc = "not_started"
    /\ skip_flash = FALSE
    /\ expected_values = None
    /\ receive_timeout = 0
    /\ MainFresh
    /\ RTFresh("start")
    /\ rt_args \in { << a >> : a \in RTArgs }

mainVars ==
    << pc, argVars, fw_found, flashLocals, flash_result, flashCounts, hwVars,
       captureVars, verifyVars, pending, exit_code >>

\* sys.exit(code) in run_test
RTExit(code) ==
    /\ rt_pc' = "exited"
    /\ rt_exit_code' = code

\* run_test:25-38   the bundle file is read and parsed, or run_test exits
RT_ReadBundle ==
    /\ rt_pc = "start"
    /\ \E r \in {"ok", "missing", "invalid"} :
        IF r = "ok"
           THEN /\ \E b \in Bundles : test_config' = << b >>
                /\ rt_pc' = "firmware"
                /\ UNCHANGED rt_exit_code
           ELSE /\ RTExit(1)
                /\ UNCHANGED test_config
    /\ UNCHANGED << mainVars, rt_args, rtPaths, cmd, rt_launch >>

\* run_test:42-49   code_to_test comes from the bundle and must exist
RT_Firmware ==
    /\ rt_pc = "firmware"
    /\ LET field == test_config[1].code_to_test
       IN  IF ~Truthy(field)
              THEN /\ RTExit(1)
                   /\ UNCHANGED actual_firmware_path
              ELSE /\ actual_firmware_path' = ResolveBundlePath(field)
                   /\ \E found \in BOOLEAN :
                        IF found
                           THEN rt_pc' = "input" /\ UNCHANGED rt_exit_code
                           ELSE RTExit(1)
    /\ UNCHANGED << mainVars, rt_args, test_config, actual_input_values_path,
                    actual_expected_values_path, rt_exp_found, cmd,
                    rt_launch >>

\* run_test:52-66   input_values: required, and must exist
RT_Input ==
    /\ rt_pc = "input"
    /\ LET chosen == ChosenPath(rt_args[1].input_values,
                                test_config[1].input_values)
       IN  /\ actual_input_values_path' = chosen
           /\ IF chosen = None
                 THEN RTExit(1)
                 ELSE \E found \in BOOLEAN :
                        IF found
                           THEN rt_pc' = "expected" /\ UNCHANGED rt_exit_code
                           ELSE RTExit(1)
    /\ UNCHANGED << mainVars, rt_args, test_config, actual_firmware_path,
                    actual_expected_values_path, rt_exp_found, cmd,
                    rt_launch >>

\* run_test:73, 78   `if not os.path.exists(actual_expected_values_path)`
ExpectedMissingExitsMutant(found) == FALSE
ExpectedMissingExits(found) == ~found

\* run_test:69-80   expected_values: optional, but must exist when given
RT_Expected ==
    /\ rt_pc = "expected"
    /\ LET chosen == ChosenPath(rt_args[1].expected_values,
                                test_config[1].expected_values)
       IN  /\ actual_expected_values_path' = chosen
           /\ IF chosen = None
                 THEN /\ rt_pc' = "launch"
                      /\ UNCHANGED << rt_exp_found, rt_exit_code >>
                 ELSE \E found \in BOOLEAN :
                        /\ rt_exp_found' = PyBool(found)
                        /\ IF ExpectedMissingExits(found)
                              THEN RTExit(1)
                              ELSE rt_pc' = "launch" /\ UNCHANGED rt_exit_code
    /\ UNCHANGED << mainVars, rt_args, test_config, actual_firmware_path,
                    actual_input_values_path, cmd, rt_launch >>

\* run_test:83-110   the child's command line; an option is << >> when it is
\* not passed
ChildCommand ==
    [ code_to_test |-> actual_firmware_path,
      input_values |-> actual_input_values_path,
      expected_values |-> IF Truthy(actual_expected_values_path)
                             THEN << actual_expected_values_path >>
                             ELSE << >>,
      skip_flash |-> rt_args[1].skip_flash,
      receive_timeout |-> IF rt_args[1].receive_timeout # 0
                             THEN << rt_args[1].receive_timeout >>
                             ELSE << >> ]

\* run_test:83-122, 136-142   the command line is built and subprocess.run
\* starts the child, which parses it (main:20-33), or the launch fails
RT_Launch ==
    /\ rt_pc = "launch"
    /\ cmd' = << ChildCommand >>
    /\ \E l \in Launches :
        IF l = "ok"
           THEN /\ pc' = "start"
                /\ skip_flash' = ChildCommand.skip_flash
                /\ expected_values' =
                      IF ChildCommand.expected_values = << >>
                         THEN None
                         ELSE ChildCommand.expected_values[1]
                /\ receive_timeout' =
                      IF ChildCommand.receive_timeout = << >>
                         THEN DefaultReceiveTimeout
                         ELSE ChildCommand.receive_timeout[1]
                /\ rt_pc' = "waiting"
                /\ UNCHANGED << rt_launch, rt_exit_code >>
           ELSE /\ rt_launch' = l
                /\ RTExit(1)
                /\ UNCHANGED << pc, argVars >>
    /\ UNCHANGED << fw_found, flashLocals, flash_result, flashCounts, hwVars,
                    captureVars, verifyVars, pending, exit_code, rt_args,
                    test_config, rtPaths >>

\* run_test:122-135   run_test's exit code after the child's: falling off
\* the end of main for 0, sys.exit(e.returncode) otherwise
RTExitCodeFlattened(returncode) == IF returncode = 0 THEN 0 ELSE 1
RTExitCode(returncode) == IF returncode = 0 THEN 0 ELSE returncode

\* run_test:122-142   the child has exited: subprocess.run returns,
\* raises CalledProcessError, or raises another exception while collecting
\* the child's output (handled at run_test:140-142)
RT_Collect ==
    /\ rt_pc = "waiting"
    /\ pc = "exited"
    /\ \E got \in {"ran", "exc"} :
        /\ rt_launch' = got
        /\ RTExit(IF got = "ran" THEN RTExitCode(exit_code) ELSE 1)
    /\ UNCHANGED << mainVars, rt_args, test_config, rtPaths, cmd >>

NextRT ==
    \/ RT_ReadBundle
    \/ RT_Firmware
    \/ RT_Input
    \/ RT_Expected
    \/ RT_Launch
    \/ RT_Collect
    \/ Next

SpecRunTest == InitRT /\ [][NextRT]_vars

\* =================================================================
\* Properties
\* =================================================================

\* the run got past step 1: flashing was skipped or reported success
PastFlashing == skip_flash \/ flash_result = "True"

\* one of the two phrases flash_firmware trusts is in the text, in any case
HasSuccessPhrase(err) ==
    \/ \E i \in 1..Len(err) :
          err[i] \in {"verify success", "Verify Success", "VERIFY SUCCESS"}
    \/ \E i \in 1..Len(err) :
          err[i] \in {"flash written and verified successfully",
                      "Flash written and verified successfully"}

\* "error" is in the text, in any case
HasError(err) == \E i \in 1..Len(err) : err[i] \in {"error", "ERROR", "Error"}

\* C1: once flashing is behind it, a run that ends without having completed
\* verification exits with code 2, never 1: after a null stimulus record,
\* after a serial channel that is not connected, after a failed GPIO
\* initialisation, and after any exception that left the try body.
C1_AbortExitsIncomplete ==
    pc = "exited" =>
        /\ (PastFlashing /\ ~script_ran_to_completion => exit_code = 2)
        /\ (input_actions_config = None => exit_code = 2)
        /\ (is_connected = "False" => exit_code = 2)
        /\ (pending # None => exit_code = 2)

\* C1 witness: the run was aborted by sys.exit(1) because the channel was
\* not connected, and the process exit code is 2
C1_Witness ==
    /\ pc = "exited"
    /\ PastFlashing
    /\ pending = "SystemExit(1)"
    /\ is_connected = "False"
    /\ exit_code = 2

\* C2: the exit code is 0 exactly when the verifier ran to its end with
\* verdict Passed, and 1 whenever it ran to its end with verdict Failed.
C2_ExitCodeOfVerdict ==
    pc = "exited" =>
        /\ (exit_code = 0 <=> (script_ran_to_completion /\ test_passed))
        /\ (script_ran_to_completion /\ ~test_passed => exit_code = 1)

\* C2 witness: a completed run with verdict Failed has exited
C2_Witness ==
    /\ pc = "exited"
    /\ script_ran_to_completion
    /\ ~test_passed
    /\ exit_code = 1

\* C3: without --skip-flash, once flash_firmware has returned Failure or
\* raised, the only thing the run still does is exit with code 1: the GPIO
\* handle is never acquired, the serial channel is never opened, the
\* verifier never runs.
C3_FlashFailureStops ==
    (~skip_flash /\ flash_result \in {"False", "raised"}) =>
        /\ pc \in {"ff_return", "exited"}
        /\ (pc = "exited" => exit_code = 1)
        /\ gpio_acquired = 0
        /\ serial_opened = 0
        /\ ~gpio_held /\ ~serial_held
        /\ exp_exists = Unset
        /\ check_output_calls = << >>
        /\ ~script_ran_to_completion

\* C3 witness: the write command ran, flash_firmware returned Failure and
\* the process has exited
C3_Witness ==
    /\ pc = "exited"
    /\ ~skip_flash
    /\ flash_result = "False"
    /\ write_runs = 1
    /\ exit_code = 1

\* C4: without --skip-flash, a firmware file found missing ends the run with
\* exit code 1 and nothing was touched: no write command, no reset command,
\* no GPIO handle, no serial channel.
C4_MissingFirmwareExits ==
    (~skip_flash /\ fw_found = "False") =>
        /\ pc = "exited"
        /\ exit_code = 1
        /\ flash_result = Unset
        /\ write_runs = 0
        /\ reset_runs = 0
        /\ gpio_acquired = 0
        /\ serial_opened = 0

\* C4 witness: the firmware file was looked up and not found
C4_Witness ==
    /\ pc = "exited"
    /\ ~skip_flash
    /\ fw_found = "False"
    /\ exit_code = 1

\* C5: whatever the write command's exit code and standard error, a
\* standard error holding one of the two success phrases (any letter case)
\* makes flash_firmware return Success.
C5_PhraseMeansSuccess ==
    (pc = "ff_return" /\ write_launch = "ok"
        /\ HasSuccessPhrase(write_stderr))
      => flash_result = "True"

\* C6: a write command that exits non-zero with neither success phrase in
\* its standard error makes flash_firmware return Failure, and no reset
\* command is run.
C6_NonZeroWithoutPhraseFails ==
    (write_launch = "ok" /\ write_rc # 0 /\ ~HasSuccessPhrase(write_stderr))
      => /\ pc = "ff_return"
         /\ flash_result = "False"
         /\ reset_runs = 0

\* C6 witness: the write command exited 2 with only "Error" on standard
\* error, and flash_firmware is about to return
C6_Witness ==
    /\ pc = "ff_return"
    /\ write_launch = "ok"
    /\ write_rc = 2
    /\ write_stderr = << "Error" >>
    /\ flash_result = "False"

\* C7: a write command that exits 0 with neither success phrase and without
\* "error" (any letter case) in its standard error makes flash_firmware
\* return Success.
C7_CleanExitMeansSuccess ==
    (pc = "ff_return" /\ write_launch = "ok" /\ write_rc = 0
        /\ ~HasSuccessPhrase(write_stderr) /\ ~HasError(write_stderr))
      => flash_result = "True"

\* C8: once the first classification test has succeeded, flash_firmware
\* returns Success whatever the reset command did.
C8_ResetNeverDowngrades ==
    (pc = "ff_return" /\ first_test = "True") => flash_result = "True"

\* C9: with no expected-values path, the verifier step always completes,
\* its verdict is Passed exactly when data was captured (whatever its
\* content), and it does not call check_output.
C9_NoSpecPassIffData ==
    [][ (pc = "verify" /\ ~Truthy(expected_values))
          => /\ pc' = "finally"
             /\ script_ran_to_completion'
             /\ (test_passed' <=> received_data # None)
             /\ check_output_calls' = check_output_calls ]_vars

\* C9 witness: no path was given, empty data was captured, the verdict is
\* Passed
C9_Witness ==
    /\ pc = "exited"
    /\ expected_values = None
    /\ received_data = ""
    /\ test_passed
    /\ exit_code = 0

\* C10: with an expected-values path (a non-empty string, the test of
\* main:104) whose file the verifier finds missing, the verdict is Passed
\* whether or not data was captured, and the exit code is 0.
C10_MissingSpecPasses ==
    exp_exists = "False" =>
        /\ Truthy(expected_values)
        /\ pc \in {"finally", "exited"}
        /\ script_ran_to_completion
        /\ test_passed
        /\ check_output_calls = << >>
        /\ (pc = "exited" => exit_code = 0)

\* C10 witness: the file was missing, nothing was captured, exit code 0
C10_Witness ==
    /\ pc = "exited"
    /\ exp_exists = "False"
    /\ received_data = None
    /\ exit_code = 0

\* C11: when the expected-values file exists, absent data gives verdict
\* Failed without a call of check_output; check_output is called exactly
\* when a path is given, the file exists and data is present, with the
\* captured data, the path and the stimulus record, and the value it returns
\* is the verdict.
C11_DelegatesToCheckOutput ==
    [][ /\ (pc = "verify" /\ exp_exists' = "True" /\ received_data = None)
            => /\ check_output_calls' = check_output_calls
               /\ script_ran_to_completion'
               /\ ~test_passed'
        /\ (check_output_calls' # check_output_calls)
            <=> /\ pc = "verify"
                /\ Truthy(expected_values)
                /\ exp_exists' = "True"
                /\ received_data # None
        /\ (check_output_calls' # check_output_calls)
            => /\ Len(check_output_calls') = Len(check_output_calls) + 1
               /\ LET call == check_output_calls'[Len(check_output_calls')]
                  IN  /\ call.args = << received_data, expected_values,
                                        input_actions_config >>
                      /\ (call.returned = "raise"
                            <=> ~script_ran_to_completion')
                      /\ (call.returned # "raise"
                            => (test_passed' <=> call.returned = "True"))
      ]_vars

\* C11 witness: check_output was called with captured data, returned False,
\* and the run exited with the verdict Failed
C11_Witness ==
    /\ pc = "exited"
    /\ Len(check_output_calls) = 1
    /\ check_output_calls[1].args[1] = "42\n"
    /\ check_output_calls[1].returned = "False"
    /\ ~test_passed
    /\ exit_code = 1

\* the positions of main's flashing step and of flash_firmware
FlashPcs ==
    {"ff_entry", "ff_write", "ff_classify", "ff_reset", "ff_return"}

\* the positions inside the with statement of main:70
GpioScopePcs ==
    {"emulate", "serial_open", "serial_check", "mode", "receive",
     "capturing"}

\* the state of steps 2 to 4 before any of them has run
DownstreamFresh ==
    /\ ~gpio_held /\ ~serial_held
    /\ gpio_acquired = 0 /\ serial_opened = 0
    /\ input_actions_config = Unset
    /\ is_connected = Unset
    /\ reception_mode_for_receiver = Unset
    /\ received_data = None
    /\ capture_returns = 0
    /\ exp_exists = Unset
    /\ check_output_calls = << >>
    /\ ~test_passed /\ ~script_ran_to_completion
    /\ pending = None
    /\ exit_code = -1

\* the exit code as a function of what steps 2 to 4 did
DownstreamExit ==
    IF pending # None THEN 2 ELSE IF test_passed THEN 0 ELSE 1

\* C12: with --skip-flash the flashing step does nothing (the firmware file
\* is not looked up, flash_firmware is not called, no write or reset command
\* runs); stimulus starts from the same state as after a successful flash,
\* and the exit code is decided by the outcomes of stimulus, capture and
\* verification alone.
C12_SkipFlashBypasses ==
    /\ skip_flash =>
          /\ fw_found = Unset /\ ff_found = Unset
          /\ write_launch = Unset /\ reset_outcome = Unset
          /\ flash_result = Unset
          /\ write_runs = 0 /\ reset_runs = 0
          /\ pc \notin FlashPcs
    /\ pc = "gpio_init" => (PastFlashing /\ DownstreamFresh)
    /\ (pc = "exited" /\ PastFlashing) => exit_code = DownstreamExit

\* C12 witness: a run with --skip-flash completed with verdict Passed
C12_Witness ==
    /\ pc = "exited"
    /\ skip_flash
    /\ script_ran_to_completion
    /\ exit_code = 0

\* C13: the idle timeout passed to receive_data is at most the overall
\* timeout passed to it.
C13_IdleAtMostOverall ==
    pc = "capturing" => idle_timeout_s <= overall_timeout_s

C16_NeverBothHeld == ~(gpio_held /\ serial_held)

\* C16 amended: the serial channel is opened only after the stimulus driver
\* returned a non-null record and is held only while the GPIO handle is
\* still held; the GPIO handle is released when capture returns, before
\* verification.
C16_SerialInsideGpioScope ==
    /\ serial_held => gpio_held
    /\ serial_held => input_actions_config \in Records
    /\ gpio_held => pc \in GpioScopePcs
    /\ pc = "verify" => (~gpio_held /\ ~serial_held)

\* C16 witness: capture is running with both handles held
C16_Witness ==
    /\ pc = "capturing"
    /\ gpio_held
    /\ serial_held

\* C17: whatever was acquired is released on every path: neither handle is
\* held when verification starts, when the finally clause runs, or when the
\* process has exited.
C17_ReleasedOnEveryPath ==
    /\ pc \in {"verify", "finally", "exited"}
          => (~gpio_held /\ ~serial_held)
    /\ gpio_held => gpio_acquired = 1
    /\ serial_held => serial_opened = 1

\* C17 witness: both handles were acquired, the run was aborted because the
\* channel was not connected, and the process has exited
C17_Witness ==
    /\ pc = "exited"
    /\ gpio_acquired = 1
    /\ serial_opened = 1
    /\ pending = "SystemExit(1)"
    /\ ~gpio_held /\ ~serial_held

\* C18: flash, stimulus, capture and verification happen in this order, each
\* at most once: at most one write command; stimulus only after the flash
\* succeeded or was skipped; the serial channel only after a non-null
\* stimulus record; verification only after capture returned.
C18_StagesInOrderOnce ==
    /\ write_runs <= 1 /\ reset_runs <= 1
    /\ gpio_acquired <= 1 /\ serial_opened <= 1
    /\ capture_returns <= 1 /\ Len(check_output_calls) <= 1
    /\ reset_runs = 1 => write_runs = 1
    /\ pc \in FlashPcs => DownstreamFresh
    /\ (pc = "gpio_init" \/ pc \in GpioScopePcs \/ gpio_acquired > 0)
          => PastFlashing
    /\ (gpio_acquired > 0 /\ ~skip_flash) => write_runs = 1
    /\ (pc \in {"serial_open", "serial_check", "mode", "receive",
                "capturing"} \/ serial_opened > 0)
          => (gpio_acquired = 1 /\ input_actions_config \in Records)
    /\ (pc = "verify" \/ exp_exists # Unset \/ script_ran_to_completion
          \/ check_output_calls # << >>)
          => (capture_returns = 1 /\ serial_opened = 1)
    /\ capture_returns = 1 => (serial_opened = 1 /\ is_connected = "True")

\* C18 witness: a run that flashed, stimulated, captured and verified
C18_Witness ==
    /\ pc = "exited"
    /\ ~skip_flash
    /\ write_runs = 1
    /\ gpio_acquired = 1
    /\ serial_opened = 1
    /\ capture_returns = 1
    /\ script_ran_to_completion

\* where a bundle field of the model points: the bundle's directory is /cfg
BundleFieldPath(field) ==
    CASE field = "fw.bin" -> "/cfg/fw.bin"
      [] field = "../in.json" -> "/in.json"
      [] field = "../exp.json" -> "/exp.json"
      [] OTHER -> field

\* C15: for input_values and expected_values, a command-line value (not
\* empty) is passed to main_runner as it is and the bundle field is ignored;
\* without one the bundle field is passed, resolved against the bundle's
\* directory unless absolute; code_to_test always comes from the bundle.
C15_CliOverridesBundle ==
    cmd # << >> =>
        LET c == cmd[1]
            a == rt_args[1]
            b == test_config[1]
        IN  /\ c.code_to_test = BundleFieldPath(b.code_to_test)
            /\ c.code_to_test \in {"/cfg/fw.bin", "/abs/fw.bin"}
            /\ Truthy(a.input_values) => c.input_values = a.input_values
            /\ ~Truthy(a.input_values)
                  => /\ b.input_values # None
                     /\ c.input_values = BundleFieldPath(b.input_values)
            /\ Truthy(a.expected_values)
                  => c.expected_values = << a.expected_values >>
            /\ (~Truthy(a.expected_values) /\ b.expected_values # None)
                  => c.expected_values
                        = << BundleFieldPath(b.expected_values) >>
            /\ (~Truthy(a.expected_values) /\ b.expected_values = None)
                  => c.expected_values = << >>

\* C15 witness: the command line and the bundle both name expected values
\* and input values; the child gets the command line's, and the bundle's
\* firmware
C15_Witness ==
    /\ rt_pc = "waiting"
    /\ rt_args[1].expected_values = "cli_exp.json"
    /\ rt_args[1].input_values = "cli_in.json"
    /\ test_config[1].expected_values = "../exp.json"
    /\ test_config[1].input_values = "/abs/in.json"
    /\ cmd[1].expected_values = << "cli_exp.json" >>
    /\ cmd[1].input_values = "cli_in.json"
    /\ cmd[1].code_to_test = "/cfg/fw.bin"
    /\ expected_values = "cli_exp.json"

\* C19: whenever run_test has launched main_runner and both have exited,
\* run_test's exit code is main_runner's.
C19_ExitCodePropagates ==
    (rt_pc = "exited" /\ pc = "exited") => rt_exit_code = exit_code

\* C19 amended: run_test's exit code is main_runner's whenever
\* subprocess.run delivered the child's result (it returned, or raised
\* CalledProcessError); when it raised another exception run_test exits
\* with 1, and run_test does not exit while the child is running.
C19_ExitCodeOfCollectedChild ==
    /\ (rt_pc = "exited" /\ rt_launch = "ran")
          => (pc = "exited" /\ rt_exit_code = exit_code)
    /\ (rt_pc = "exited" /\ rt_launch # "ran") => rt_exit_code = 1
    /\ (rt_pc = "exited" /\ pc # "not_started") => pc = "exited"

\* C19 witness: the child exited with 2 (Incomplete) and so did run_test
C19_Witness ==
    /\ rt_pc = "exited"
    /\ rt_launch = "ran"
    /\ exit_code = 2
    /\ rt_exit_code = 2

\* C20: through run_test an expected-values path (not empty, from the
\* command line or the bundle) whose file is missing ends run_test with
\* exit code 1 before main_runner is launched; main_runner is launched
\* with an expected-values path only after run_test found that file, so
\* main_runner finds it missing only if it disappeared in between.
C20_MissingExpectedStopsRunTest ==
    /\ rt_exp_found = "False"
          => /\ rt_pc = "exited"
             /\ rt_exit_code = 1
             /\ pc = "not_started"
             /\ cmd = << >>
    /\ (pc # "not_started" /\ Truthy(expected_values))
          => /\ rt_exp_found = "True"
             /\ expected_values = actual_expected_values_path
    /\ exp_exists = "False" => rt_exp_found = "True"
    /\ pc # "not_started"
          => (Truthy(actual_expected_values_path)
                <=> rt_exp_found = "True")

\* C20 witness: the bundle's expected-values file is missing and run_test
\* has exited with 1
C20_Witness ==
    /\ rt_pc = "exited"
    /\ rt_args[1].expected_values = None
    /\ actual_expected_values_path = "/exp.json"
    /\ rt_exp_found = "False"
    /\ rt_exit_code = 1

\* C21: the second-chance test of flash_firmware never changes an outcome.
\* For every exit code and standard-error text, a negative first test
\* implies a negative second-chance test; so whenever the write command
\* returned and the first test was negative, flash_firmware returns False,
\* in particular for exit code 0 with "error" in the text and neither
\* success phrase, and the "interpreting as success" return is never taken.
C21_SecondChanceIsDead ==
    /\ \A rc \in ExitCodes, err \in Texts :
          ~FirstTest(rc, err) => ~SecondChance(rc, err)
    /\ (pc = "ff_return" /\ first_test = "False") => flash_result = "False"

\* the write command exited 0 with "error" and no success phrase in its
\* standard error, the first test was negative and Failure is returned
C21_Witness ==
    /\ pc = "ff_return"
    /\ write_launch = "ok"
    /\ write_rc = 0
    /\ HasError(write_stderr)
    /\ ~HasSuccessPhrase(write_stderr)
    /\ first_test = "False"
    /\ reset_runs = 0
    /\ flash_result = "False"

====
